---- MODULE Spec2Model ----
(***************************************************************************)
(* Model of my_subsynth.py: the class mySubSynth, a subtractive            *)
(* synthesizer that wires three pyo LFO oscillators, a MidiAdsr envelope,  *)
(* a MoogLP filter and a Pan object, and exposes eight parameters.         *)
(*                                                                         *)
(* Number representation.  Python floats are modelled in fixed point:      *)
(*   sharp, cutoffFact, res, pan        in tenths      (0.5 -> 5, 1 -> 10) *)
(*   envelope level and envelope args   in hundredths  (0.65 -> 65)        *)
(*   raw oscillator samples             in tenths      (1.0 -> 10)         *)
(* Waveform types are plain integers.  An optional keyword argument is a   *)
(* sequence of length 0 (not passed) or 1 (passed with that value).        *)
(***************************************************************************)
EXTENDS Integers, Sequences, FiniteSets, TLC

VARIABLES
    self,      \* the stored attributes _type1 .. _res of the synthesizer
    osc1,      \* self._osc1 : LFO
    osc2,      \* self._osc2 : LFO
    osc3,      \* self._osc3 : LFO
    filt,      \* self._filt : MoogLP
    stereo,    \* self._stereo : Pan; its base objects are self._base_objs
    env,       \* self._env : MidiAdsr
    st,        \* per audio object, the last transport call it received
    panels,    \* _map_list_osc, _map_list_filt and what PyoObject.ctrl was handed
    sample,    \* the values of the signal chain at the last processed sample
    last       \* the last call made on the synthesizer, with its argument

vars == <<self, osc1, osc2, osc3, filt, stereo, env, st, panels, sample, last>>

Params == {"type1", "sharp1", "type2", "sharp2", "type3", "sharp3", "cutoffFact", "res"}

TypeParams == {"type1", "type2", "type3"}

(***************************************************************************)
(* Input sets.  The declared ranges are 0..7 for a type and [0, 1] (0..10  *)
(* in tenths) for the others; MaxOver is how far above the declared        *)
(* maximum the out-of-range input lies (in steps of 1 for a type, of 0.5   *)
(* for the others).                                                        *)
(***************************************************************************)
MaxOver == 1

TypeVals == {0, 3, 7 + MaxOver}

FloatVals == {0, 5, 10 + 5 * MaxOver}

\* Narrow input sets for the specifications that carry more state.
FewTypeVals == {7 + MaxOver}

FewFloatVals == {10 + 5 * MaxOver}

CutoffVals == {0, 10 + 5 * MaxOver}

\* Envelope output levels (hundredths) and raw oscillator samples (tenths).
Levels == {0, 13, 65}

Waves == {-10, 10}

Durs == {0, 1}

Delays == {0, 1}

Chnls == {0, 1}

Incs == {1}

Opt(S) == {<<>>} \cup {<<v>> : v \in S}

\* Constructor calls: types from T, cutoffFact from C, the other floats from F.
KwArgs(T, F, C) ==
    [type1 : Opt(T), sharp1 : Opt(F), type2 : Opt(T), sharp2 : Opt(F),
     type3 : Opt(T), sharp3 : Opt(F), cutoffFact : Opt(C), res : Opt(F)]

\* The keyword defaults of __init__.
Defaults ==
    [type1 |-> 0, sharp1 |-> 10, type2 |-> 0, sharp2 |-> 10,
     type3 |-> 0, sharp3 |-> 10, cutoffFact |-> 5, res |-> 5]

Arg(kw, p) == IF kw[p] = <<>> THEN Defaults[p] ELSE kw[p][1]

\* self._env * 20000 * x : a product expression over the envelope signal.
CutoffExpr(x) == <<"env", 20000, x>>

NoSample ==
    [rendered |-> FALSE, env |-> 0, w |-> <<0, 0, 0>>,
     osc1 |-> 0, osc2 |-> 0, osc3 |-> 0, filtIn |-> 0, cutoff |-> 0]

Stages == {"osc1", "osc2", "osc3", "filt", "stereo"}

\* Chain with the third oscillator added to the first instead of the second.
Chain_skip(kw) ==
    /\ osc1 = [freq |-> "freqs", sharp |-> Arg(kw, "sharp1"), type |-> Arg(kw, "type1"),
               mul |-> "env", add |-> "none"]
    /\ osc2 = [freq |-> "freqs", sharp |-> Arg(kw, "sharp2"), type |-> Arg(kw, "type2"),
               mul |-> "env", add |-> "osc1"]
    /\ osc3 = [freq |-> "freqs", sharp |-> Arg(kw, "sharp3"), type |-> Arg(kw, "type3"),
               mul |-> "env", add |-> "osc1"]
    /\ filt = [input |-> "osc3", freq |-> CutoffExpr(Arg(kw, "cutoffFact")),
               res |-> Arg(kw, "res")]
    /\ stereo = [input |-> "filt", outs |-> 2, pan |-> 5]

\* The audio processing chain of __init__: three oscillators, filter, panner.
Chain(kw) ==
    /\ osc1 = [freq |-> "freqs", sharp |-> Arg(kw, "sharp1"), type |-> Arg(kw, "type1"),
               mul |-> "env", add |-> "none"]
    /\ osc2 = [freq |-> "freqs", sharp |-> Arg(kw, "sharp2"), type |-> Arg(kw, "type2"),
               mul |-> "env", add |-> "osc1"]
    /\ osc3 = [freq |-> "freqs", sharp |-> Arg(kw, "sharp3"), type |-> Arg(kw, "type3"),
               mul |-> "env", add |-> "osc2"]
    /\ filt = [input |-> "osc3", freq |-> CutoffExpr(Arg(kw, "cutoffFact")),
               res |-> Arg(kw, "res")]
    /\ stereo = [input |-> "filt", outs |-> 2, pan |-> 5]

Construct(kw) ==
    /\ self = [p \in Params |-> Arg(kw, p)]
    /\ env = [input |-> "velocity", attack |-> 5, decay |-> 40, sustain |-> 20,
              release |-> 50, mul |-> 65]
    /\ Chain(kw)
    /\ st = [o \in Stages \cup {"env"} |-> <<"__init__">>]
    /\ panels = [map_list_osc |-> <<>>, map_list_filt |-> <<>>, shown |-> <<>>]
    /\ sample = NoSample
    /\ last = [op |-> "__init__", arg |-> kw]

(***************************************************************************)
(* The eight setters.                                                      *)
(***************************************************************************)
setType1(x) ==
    /\ self' = [self EXCEPT !["type1"] = x]
    /\ osc1' = [osc1 EXCEPT !.type = x]
    /\ last' = [op |-> "setType1", arg |-> x]
    /\ UNCHANGED <<osc2, osc3, filt, stereo, env, st, panels, sample>>

setSharp1(x) ==
    /\ self' = [self EXCEPT !["sharp1"] = x]
    /\ osc1' = [osc1 EXCEPT !.sharp = x]
    /\ last' = [op |-> "setSharp1", arg |-> x]
    /\ UNCHANGED <<osc2, osc3, filt, stereo, env, st, panels, sample>>

\* setType2 storing into _type1 (a copied line left unedited).
setType2_copied(x) ==
    /\ self' = [self EXCEPT !["type1"] = x]
    /\ osc2' = [osc2 EXCEPT !.type = x]
    /\ last' = [op |-> "setType2", arg |-> x]
    /\ UNCHANGED <<osc1, osc3, filt, stereo, env, st, panels, sample>>

setType2(x) ==
    /\ self' = [self EXCEPT !["type2"] = x]
    /\ osc2' = [osc2 EXCEPT !.type = x]
    /\ last' = [op |-> "setType2", arg |-> x]
    /\ UNCHANGED <<osc1, osc3, filt, stereo, env, st, panels, sample>>

setSharp2(x) ==
    /\ self' = [self EXCEPT !["sharp2"] = x]
    /\ osc2' = [osc2 EXCEPT !.sharp = x]
    /\ last' = [op |-> "setSharp2", arg |-> x]
    /\ UNCHANGED <<osc1, osc3, filt, stereo, env, st, panels, sample>>

setType3(x) ==
    /\ self' = [self EXCEPT !["type3"] = x]
    /\ osc3' = [osc3 EXCEPT !.type = x]
    /\ last' = [op |-> "setType3", arg |-> x]
    /\ UNCHANGED <<osc1, osc2, filt, stereo, env, st, panels, sample>>

\* setSharp3 forwarding to the second oscillator.
setSharp3_crossed(x) ==
    /\ self' = [self EXCEPT !["sharp3"] = x]
    /\ osc2' = [osc2 EXCEPT !.sharp = x]
    /\ last' = [op |-> "setSharp3", arg |-> x]
    /\ UNCHANGED <<osc1, osc3, filt, stereo, env, st, panels, sample>>

setSharp3(x) ==
    /\ self' = [self EXCEPT !["sharp3"] = x]
    /\ osc3' = [osc3 EXCEPT !.sharp = x]
    /\ last' = [op |-> "setSharp3", arg |-> x]
    /\ UNCHANGED <<osc1, osc2, filt, stereo, env, st, panels, sample>>

\* setCutoffFact storing the factor without rebuilding the filter's frequency.
setCutoffFact_stale(x) ==
    /\ self' = [self EXCEPT !["cutoffFact"] = x]
    /\ last' = [op |-> "setCutoffFact", arg |-> x]
    /\ UNCHANGED <<osc1, osc2, osc3, filt, stereo, env, st, panels, sample>>

setCutoffFact(x) ==
    /\ self' = [self EXCEPT !["cutoffFact"] = x]
    /\ filt' = [filt EXCEPT !.freq = CutoffExpr(x)]
    /\ last' = [op |-> "setCutoffFact", arg |-> x]
    /\ UNCHANGED <<osc1, osc2, osc3, stereo, env, st, panels, sample>>

\* setRes clamping its argument to the declared range [0, 1].
setRes_clamped(x) ==
    LET c == IF x < 0 THEN 0 ELSE IF x > 10 THEN 10 ELSE x
    IN  /\ self' = [self EXCEPT !["res"] = c]
        /\ filt' = [filt EXCEPT !.res = c]
        /\ last' = [op |-> "setRes", arg |-> x]
        /\ UNCHANGED <<osc1, osc2, osc3, stereo, env, st, panels, sample>>

setRes(x) ==
    /\ self' = [self EXCEPT !["res"] = x]
    /\ filt' = [filt EXCEPT !.res = x]
    /\ last' = [op |-> "setRes", arg |-> x]
    /\ UNCHANGED <<osc1, osc2, osc3, stereo, env, st, panels, sample>>

\* The property getters.
type1 == self["type1"]

sharp1 == self["sharp1"]

type2 == self["type2"]

sharp2 == self["sharp2"]

type3 == self["type3"]

sharp3 == self["sharp3"]

cutoffFact == self["cutoffFact"]

res == self["res"]

\* The property setters: each delegates to its setXxx method.
type1_setter(x) == setType1(x)

sharp1_setter(x) == setSharp1(x)

type2_setter(x) == setType2(x)

sharp2_setter(x) == setSharp2(x)

type3_setter(x) == setType3(x)

sharp3_setter(x) == setSharp3(x)

cutoffFact_setter(x) == setCutoffFact(x)

res_setter(x) == setRes(x)

Setters(T, F) ==
    \/ \E x \in T : setType1(x)
    \/ \E x \in F : setSharp1(x)
    \/ \E x \in T : setType2(x)
    \/ \E x \in F : setSharp2(x)
    \/ \E x \in T : setType3(x)
    \/ \E x \in F : setSharp3(x)
    \/ \E x \in F : setCutoffFact(x)
    \/ \E x \in F : setRes(x)

PropertySetters(T, F) ==
    \/ \E x \in T : type1_setter(x)
    \/ \E x \in F : sharp1_setter(x)
    \/ \E x \in T : type2_setter(x)
    \/ \E x \in F : sharp2_setter(x)
    \/ \E x \in T : type3_setter(x)
    \/ \E x \in F : sharp3_setter(x)
    \/ \E x \in F : cutoffFact_setter(x)
    \/ \E x \in F : res_setter(x)

(***************************************************************************)
(* ctrl: the control panels.                                               *)
(***************************************************************************)
SLMap(min, max, scale, name, init, resol, dataOnly) ==
    [min |-> min, max |-> max, scale |-> scale, name |-> name, init |-> init,
     res |-> resol, dataOnly |-> dataOnly]

\* PyoObject.ctrl(map_list, title, wxnoserver) on the synthesizer itself.
SuperCtrl(map_list, title, wxnoserver) ==
    [obj |-> "self", map_list |-> map_list, title |-> title, wxnoserver |-> wxnoserver]

\* self._env.ctrl() : the envelope's own panel, with its own default map list.
EnvCtrl == [obj |-> "env", map_list |-> <<>>, title |-> "None", wxnoserver |-> FALSE]

MapListOsc ==
    << SLMap(0, 7, "lin", "type1", self["type1"], "int", TRUE),
       SLMap(0, 10, "lin", "sharp1", self["sharp1"], "float", FALSE),
       SLMap(0, 7, "lin", "type2", self["type2"], "int", TRUE),
       SLMap(0, 10, "lin", "sharp2", self["sharp2"], "float", FALSE),
       SLMap(0, 7, "lin", "type3", self["type3"], "int", TRUE),
       SLMap(0, 10, "lin", "sharp3", self["sharp3"], "float", FALSE) >>

\* The filter's map list initialised from the constructor defaults.
MapListFilt_defaults ==
    << SLMap(0, 10, "lin", "cutoffFact", Defaults["cutoffFact"], "float", FALSE),
       SLMap(0, 10, "lin", "res", Defaults["res"], "float", FALSE) >>

MapListFilt ==
    << SLMap(0, 10, "lin", "cutoffFact", self["cutoffFact"], "float", FALSE),
       SLMap(0, 10, "lin", "res", self["res"], "float", FALSE) >>

ctrl(map_list, title, wxnoserver) ==
    /\ panels' = [map_list_osc |-> MapListOsc,
                  map_list_filt |-> MapListFilt,
                  shown |-> << SuperCtrl(MapListOsc, title, wxnoserver),
                               SuperCtrl(MapListFilt, title, wxnoserver),
                               EnvCtrl >>]
    /\ last' = [op |-> "ctrl", arg |-> <<map_list, title, wxnoserver>>]
    /\ UNCHANGED <<self, osc1, osc2, osc3, filt, stereo, env, st, sample>>

\* The map_list arguments offered to ctrl: None, or a caller's own list.
MapListArgs == {<<>>, <<SLMap(0, 20, "log", "res", 0, "float", FALSE)>>}

Titles == {"None", "synth"}

(***************************************************************************)
(* play, stop, out.  st[o] is the last transport call object o received.   *)
(***************************************************************************)
\* self._base_objs are the base objects of self._stereo.
BaseObjs == "stereo"

Call(s, o, c) == [s EXCEPT ![o] = c]

play(dur, delay) ==
    /\ LET s1 == Call(st, "osc1", <<"play", dur, delay>>)
           s2 == Call(s1, "osc2", <<"play", dur, delay>>)
           s3 == Call(s2, "osc3", <<"play", dur, delay>>)
           s4 == Call(s3, "filt", <<"play", dur, delay>>)
           s5 == Call(s4, "stereo", <<"play", dur, delay>>)
       IN  st' = Call(s5, BaseObjs, <<"play", dur, delay>>)
    /\ last' = [op |-> "play", arg |-> <<dur, delay>>]
    /\ UNCHANGED <<self, osc1, osc2, osc3, filt, stereo, env, panels, sample>>

\* stop leaving the filter running.
stop_partial ==
    /\ LET s1 == Call(st, "osc1", <<"stop">>)
           s2 == Call(s1, "osc2", <<"stop">>)
           s3 == Call(s2, "osc3", <<"stop">>)
           s5 == Call(s3, "stereo", <<"stop">>)
       IN  st' = Call(s5, BaseObjs, <<"stop">>)
    /\ last' = [op |-> "stop", arg |-> <<>>]
    /\ UNCHANGED <<self, osc1, osc2, osc3, filt, stereo, env, panels, sample>>

stop ==
    /\ LET s1 == Call(st, "osc1", <<"stop">>)
           s2 == Call(s1, "osc2", <<"stop">>)
           s3 == Call(s2, "osc3", <<"stop">>)
           s4 == Call(s3, "filt", <<"stop">>)
           s5 == Call(s4, "stereo", <<"stop">>)
       IN  st' = Call(s5, BaseObjs, <<"stop">>)
    /\ last' = [op |-> "stop", arg |-> <<>>]
    /\ UNCHANGED <<self, osc1, osc2, osc3, filt, stereo, env, panels, sample>>

out(chnl, inc, dur, delay) ==
    /\ LET s1 == Call(st, "osc1", <<"play", dur, delay>>)
           s2 == Call(s1, "osc2", <<"play", dur, delay>>)
           s3 == Call(s2, "osc3", <<"play", dur, delay>>)
           s4 == Call(s3, "filt", <<"play", dur, delay>>)
           s5 == Call(s4, "stereo", <<"play", dur, delay>>)
       IN  st' = Call(s5, BaseObjs, <<"out", chnl, inc, dur, delay>>)
    /\ last' = [op |-> "out", arg |-> <<chnl, inc, dur, delay>>]
    /\ UNCHANGED <<self, osc1, osc2, osc3, filt, stereo, env, panels, sample>>

(***************************************************************************)
(* One processed sample of the chain built in __init__: the envelope's     *)
(* output is l and the raw waveform of oscillator i is w[i].  A pyo object *)
(* created with mul=m, add=a outputs raw * m + a.                          *)
(***************************************************************************)
SignalValue(name, l, outs) ==
    CASE name = "env"  -> l
      [] name = "none" -> 0
      [] name = "osc1" -> outs[1]
      [] name = "osc2" -> outs[2]
      [] name = "osc3" -> outs[3]

LFOOut(o, raw, l, outs) ==
    raw * SignalValue(o.mul, l, outs) + SignalValue(o.add, l, outs)

\* The value of the product expression e at envelope level l.
EvalExpr(e, l) == SignalValue(e[1], l, <<0, 0, 0>>) * e[2] * e[3]

Render(l, w) ==
    LET o1 == LFOOut(osc1, w[1], l, <<0, 0, 0>>)
        o2 == LFOOut(osc2, w[2], l, <<o1, 0, 0>>)
        o3 == LFOOut(osc3, w[3], l, <<o1, o2, 0>>)
    IN  /\ sample' = [rendered |-> TRUE, env |-> l, w |-> w,
                      osc1 |-> o1, osc2 |-> o2, osc3 |-> o3,
                      filtIn |-> SignalValue(filt.input, l, <<o1, o2, o3>>),
                      cutoff |-> EvalExpr(filt.freq, l)]
        /\ last' = [op |-> "render", arg |-> <<>>]
        /\ UNCHANGED <<self, osc1, osc2, osc3, filt, stereo, env, st, panels>>

(***************************************************************************)
(* Specifications.                                                         *)
(***************************************************************************)
\* Construction with any keyword arguments, then any setter calls.
Init == \E kw \in KwArgs(TypeVals, FloatVals, FloatVals) : Construct(kw)

Next == Setters(TypeVals, FloatVals) \/ PropertySetters(TypeVals, FloatVals)

Spec == Init /\ [][Next]_vars

InitFew == \E kw \in KwArgs(FewTypeVals, FewFloatVals, FewFloatVals) : Construct(kw)

\* Setters and the control panel.
NextCtrl ==
    \/ Setters(FewTypeVals, FewFloatVals)
    \/ \E m \in MapListArgs, t \in Titles : ctrl(m, t, FALSE)

SpecCtrl == InitFew /\ [][NextCtrl]_vars

\* Setters and the transport calls.
NextPlay ==
    \/ Setters(FewTypeVals, FewFloatVals)
    \/ \E d \in Durs, dl \in Delays : play(d, dl)
    \/ stop
    \/ \E c \in Chnls, i \in Incs, d \in Durs, dl \in Delays : out(c, i, d, dl)

SpecPlay == InitFew /\ [][NextPlay]_vars

\* Setters and the audio callback.
InitAudio ==
    \E kw \in KwArgs(FewTypeVals, FewFloatVals, CutoffVals) : Construct(kw)

NextAudio ==
    \/ \E x \in FewTypeVals : setType1(x)
    \/ \E x \in FewFloatVals : setSharp1(x)
    \/ \E x \in FewTypeVals : setType2(x)
    \/ \E x \in FewFloatVals : setSharp2(x)
    \/ \E x \in FewTypeVals : setType3(x)
    \/ \E x \in FewFloatVals : setSharp3(x)
    \/ \E x \in CutoffVals : setCutoffFact(x)
    \/ \E x \in FewFloatVals : setRes(x)
    \/ \E l \in Levels, w \in [1..3 -> Waves] : Render(l, w)

SpecAudio == InitAudio /\ [][NextAudio]_vars

(***************************************************************************)
(* Properties.                                                             *)
(***************************************************************************)
SetterOf(p) ==
    CASE p = "type1" -> "setType1"
      [] p = "sharp1" -> "setSharp1"
      [] p = "type2" -> "setType2"
      [] p = "sharp2" -> "setSharp2"
      [] p = "type3" -> "setType3"
      [] p = "sharp3" -> "setSharp3"
      [] p = "cutoffFact" -> "setCutoffFact"
      [] p = "res" -> "setRes"

\* What reading the property named p returns.
Get(p) ==
    CASE p = "type1" -> type1
      [] p = "sharp1" -> sharp1
      [] p = "type2" -> type2
      [] p = "sharp2" -> sharp2
      [] p = "type3" -> type3
      [] p = "sharp3" -> sharp3
      [] p = "cutoffFact" -> cutoffFact
      [] p = "res" -> res

\* The value of parameter p held by the audio object the parameter controls.
Forwarded(p) ==
    CASE p = "type1" -> osc1.type
      [] p = "sharp1" -> osc1.sharp
      [] p = "type2" -> osc2.type
      [] p = "sharp2" -> osc2.sharp
      [] p = "type3" -> osc3.type
      [] p = "sharp3" -> osc3.sharp
      [] p = "cutoffFact" -> filt.freq[3]
      [] p = "res" -> filt.res

\* The declared range of parameter p: 0..7 for a type, [0, 1] for the others.
InRange(p, v) == 0 <= v /\ v <= (IF p \in TypeParams THEN 7 ELSE 10)

\* Parameter p was given a value by the last call (a setter, or the constructor).
PassedLast(p) ==
    \/ last.op = SetterOf(p)
    \/ last.op = "__init__" /\ last.arg[p] # <<>>

PassedValue(p) == IF last.op = "__init__" THEN last.arg[p][1] ELSE last.arg

\* C1: after a setter call with value x, whatever calls preceded it, reading
\* the same-named property returns exactly x.
C1_RoundTrip == \A p \in Params : last.op = SetterOf(p) => Get(p) = last.arg

C1_Witness ==
    /\ last.op = "setType2"
    /\ last.arg = 3
    /\ type2 = 3
    /\ type1 = 7 + MaxOver
    /\ res = 0

\* C2 as stated: a value passed to the constructor or to a setter is clamped,
\* so the stored attribute and the value forwarded to the oscillator or filter
\* lie inside the declared range afterwards.
C2_Clamped ==
    \A p \in Params :
        PassedLast(p) => InRange(p, self[p]) /\ InRange(p, Forwarded(p))

\* C2 amended: a value passed to the constructor or to a setter, inside or
\* outside the declared range, is neither rejected nor clamped: the stored
\* attribute and the value forwarded to the oscillator or filter both equal the
\* value passed.
C2_StoredAsPassed ==
    \A p \in Params :
        PassedLast(p) => self[p] = PassedValue(p) /\ Forwarded(p) = PassedValue(p)

C2_Witness ==
    /\ last.op = "setRes"
    /\ ~InRange("res", last.arg)
    /\ self["res"] = last.arg
    /\ filt.res = last.arg

\* The defaults the class docstring documents.
DocDefaults ==
    [type1 |-> 0, sharp1 |-> 5, type2 |-> 0, sharp2 |-> 5,
     type3 |-> 0, sharp3 |-> 5, cutoffFact |-> 5, res |-> 5]

\* C4: a synthesizer constructed with no arguments has the documented defaults,
\* as read through the properties and as passed to the oscillators and filter.
C4_DocumentedDefaults ==
    (last.op = "__init__" /\ \A p \in Params : last.arg[p] = <<>>)
        => \A p \in Params : Get(p) = DocDefaults[p] /\ Forwarded(p) = DocDefaults[p]

\* C9: each stored attribute agrees with the parameter of the audio object it
\* controls, and a setter for one parameter leaves the other seven stored
\* attributes and every other object parameter unchanged.
C9_AttributesAgree ==
    /\ [](\A p \in Params \ {"cutoffFact"} : self[p] = Forwarded(p))
    /\ [][\A p \in Params :
            last'.op = SetterOf(p) =>
                /\ \A q \in Params \ {p} : self'[q] = self[q] /\ Forwarded(q)' = Forwarded(q)
                /\ <<osc1.mul, osc1.add, osc2.mul, osc2.add, osc3.mul, osc3.add>>'
                     = <<osc1.mul, osc1.add, osc2.mul, osc2.add, osc3.mul, osc3.add>>
                /\ filt'.input = filt.input
                /\ UNCHANGED <<stereo, env>>]_vars

C9_Witness ==
    /\ last.op = "setSharp3"
    /\ self["sharp3"] = 0
    /\ osc3.sharp = 0
    /\ osc2.sharp = 10 + 5 * MaxOver
    /\ osc1.sharp = 5

C5_Cutoff ==
    /\ \A l \in Levels : EvalExpr(filt.freq, l) = l * 20000 * self["cutoffFact"]
    /\ last.op = "render" => sample.cutoff = sample.env * 20000 * self["cutoffFact"]
    /\ (last.op = "render" /\ self["cutoffFact"] = 0) => sample.cutoff = 0

C5_Witness ==
    /\ last.op = "render"
    /\ self["cutoffFact"] = 0
    /\ sample.env = 65
    /\ sample.cutoff = 0
    /\ filt.res = 10 + 5 * MaxOver

\* C8: for every processed sample, the filter's input is env x (w1 + w2 + w3):
\* each oscillator's raw waveform counted once and scaled by the envelope once.
C8_FilterInput ==
    sample.rendered =>
        sample.filtIn = sample.env * (sample.w[1] + sample.w[2] + sample.w[3])

C8_Witness ==
    /\ sample.rendered
    /\ sample.env = 65
    /\ sample.w = <<10, 10, -10>>
    /\ sample.filtIn = 650

Mode(c) ==
    CASE c[1] \in {"play", "out"} -> "started"
      [] c[1] = "stop" -> "stopped"
      [] OTHER -> "constructed"

DurDelay(c) ==
    CASE c[1] = "play" -> <<c[2], c[3]>>
      [] c[1] = "out" -> <<c[4], c[5]>>
      [] OTHER -> <<>>

\* C10: after play(), out() or stop(), the five chain stages are in the same
\* play state as the synthesizer's own output (started after play or out,
\* stopped after stop); these calls change no stored parameter and neither
\* start nor stop the envelope.
C10_Transport ==
    /\ [](/\ \A o \in Stages :
               /\ Mode(st[o]) = Mode(st[BaseObjs])
               /\ DurDelay(st[o]) = DurDelay(st[BaseObjs])
          /\ last.op \in {"play", "out"} => Mode(st[BaseObjs]) = "started"
          /\ last.op = "stop" => Mode(st[BaseObjs]) = "stopped")
    /\ [][last'.op \in {"play", "out", "stop"} =>
            /\ self' = self
            /\ st'["env"] = st["env"]
            /\ UNCHANGED <<osc1, osc2, osc3, filt, stereo, env>>]_vars

C10_Witness ==
    /\ last.op = "stop"
    /\ \A o \in Stages : st[o] = <<"stop">>
    /\ st["env"] = <<"__init__">>
    /\ self["res"] = 10 + 5 * MaxOver

====
